---- MODULE Spec2Model ----
(***************************************************************************)
(* glogv: a zerolog log viewer.  One JSON record per input line is turned  *)
(* into one colour-coded line on standard output.                          *)
(*                                                                         *)
(* Two generations of the program are modelled side by side:               *)
(*   V_glogv  src/glogv.go              (one file argument)                *)
(*   V_multi  src/unnamed/part_000:1-346 (several files, gzip, colour map) *)
(* The state variable `variant` selects the generation for a whole run.    *)
(* The first generation (part_000:348-444), a filter of standard input     *)
(* with the four fixed fields only, has none of the modes and is left out. *)
(*                                                                         *)
(* Conventions of the model                                                *)
(*  - A Go string is a sequence of tokens and "+" is \o, so the length and *)
(*    the order of what is printed are visible.  Clock digits and level    *)
(*    tags are spelled one character per token.                            *)
(*  - A JSON value is [t, s]: its JSON type and, for a string, its text.   *)
(*  - The decoded map[string]any of a record is split into the four        *)
(*    recognised keys and `attrs`, the function holding every other key.   *)
(*  - An attribute key is an index into KeyNames; the names are of equal   *)
(*    length and listed in byte order, so the byte order sort.Strings      *)
(*    uses is the order of the indices.                                    *)
(***************************************************************************)
EXTENDS Integers, Sequences, FiniteSets, TLC

\* ---------------------------------------------------------------- constants
maxKeys == 100
errorExitCode == 4

\* ------------------------------------------------------------------- bounds
\* Lines delivered by all sources of one run together.
MaxLines == 2
\* File arguments on the command line.
MaxFiles == 2
\* Maps of at most this many keys are ranged over in every order; a larger
\* map in ascending and in descending key order only.
MaxPerm == 3

V_glogv == "src/glogv.go"
V_multi == "src/unnamed/part_000"
Variants == {V_glogv, V_multi}

\* ANSI colour escape codes (ESC stands for the byte 033).
colorReset == "ESC[0m"
colorGray == "ESC[90m"
colorGreen == "ESC[32m"
colorRed == "ESC[31m"
colorYellow == "ESC[33m"
colorPurple == "ESC[35m"
colorCyan == "ESC[36m"
colorWhite == "ESC[37m"

\* Default colours by level; "" is what a Go map lookup of a missing key gives.
color(l) ==
  CASE l = "info" -> colorGreen
    [] l = "warn" -> colorYellow
    [] l = "debug" -> colorCyan
    [] l = "error" -> colorRed
    [] l = "panic" -> colorPurple
    [] l = "fatal" -> colorPurple
    [] l = "trace" -> colorCyan
    [] OTHER -> ""

colorHas(l) == l \in {"info", "warn", "debug", "error", "panic", "fatal", "trace"}

timeColor == colorGray
tagColor == colorGray
infoColor == colorWhite

\* ------------------------------------------------------------- JSON values
JSONTypes == {"string", "number", "bool", "null", "object", "array"}
Absent == [t |-> "absent", s |-> ""]
Str(x) == [t |-> "string", s |-> x]
NonStr(ty) == [t |-> ty, s |-> ""]

\* `val, ok := m[key]`
Has(v) == v.t # "absent"
\* `val.(string)` panics unless the dynamic type is string (nil included).
AssertPanics(v) == v.t # "string"

\* The "time" value carries what time.Parse reads from its text: whether the
\* text is an RFC3339 timestamp and, if so, the wall clock it names.
TAbsent == [t |-> "absent", s |-> "", rfc3339 |-> FALSE, h |-> 0, m |-> 0]
TText(x) == [t |-> "string", s |-> x, rfc3339 |-> FALSE, h |-> 0, m |-> 0]
TStamp(hh, mm) == [t |-> "string", s |-> "rfc3339", rfc3339 |-> TRUE, h |-> hh, m |-> mm]
TNonStr(ty) == [t |-> ty, s |-> "", rfc3339 |-> FALSE, h |-> 0, m |-> 0]

\* time.Time{}: midnight of January 1, year 1.
ZeroTime == [h |-> 0, m |-> 0]

\* time.Parse(time.RFC3339, s): the zero Time and an error on any other text.
ParseRFC3339(v) ==
  IF v.rfc3339 THEN [tm |-> [h |-> v.h, m |-> v.m], err |-> FALSE]
  ELSE [tm |-> ZeroTime, err |-> TRUE]

DigitChars == <<"0", "1", "2", "3", "4", "5", "6", "7", "8", "9">>
Digit(d) == DigitChars[d + 1]

\* t.Format(time.Kitchen), layout "3:04PM": hour of a 12-hour clock without
\* padding, two-digit minute, AM or PM.
Kitchen(t) ==
  LET h12 == IF t.h % 12 = 0 THEN 12 ELSE t.h % 12
      hour == IF h12 >= 10 THEN <<Digit(h12 \div 10), Digit(h12 % 10)>> ELSE <<Digit(h12)>>
      half == IF t.h < 12 THEN <<"A", "M">> ELSE <<"P", "M">>
  IN hour \o <<":", Digit(t.m \div 10), Digit(t.m % 10)>> \o half

\* ---------------------------------------------------------- attribute keys
KeyNames ==
  <<
     "k001", "k002", "k003", "k004", "k005", "k006", "k007", "k008",
     "k009", "k010", "k011", "k012", "k013", "k014", "k015", "k016",
     "k017", "k018", "k019", "k020", "k021", "k022", "k023", "k024",
     "k025", "k026", "k027", "k028", "k029", "k030", "k031", "k032",
     "k033", "k034", "k035", "k036", "k037", "k038", "k039", "k040",
     "k041", "k042", "k043", "k044", "k045", "k046", "k047", "k048",
     "k049", "k050", "k051", "k052", "k053", "k054", "k055", "k056",
     "k057", "k058", "k059", "k060", "k061", "k062", "k063", "k064",
     "k065", "k066", "k067", "k068", "k069", "k070", "k071", "k072",
     "k073", "k074", "k075", "k076", "k077", "k078", "k079", "k080",
     "k081", "k082", "k083", "k084", "k085", "k086", "k087", "k088",
     "k089", "k090", "k091", "k092", "k093", "k094", "k095", "k096",
     "k097", "k098", "k099", "k100", "k101", "k102"
  >>
MaxKeyId == Len(KeyNames)
KeyIds == 1..MaxKeyId
\* Byte order of two key names.
StrLess(a, b) == a < b

\* ------------------------------------------------------------------ sorting
\* A sort.Strings that leaves the slice as it was.
SortStrings_Unsorted(s) == s

\* sort.Strings(keys): the same keys in ascending byte order, which is the
\* key names in their byte order without the names that are not in the slice.
SortStrings(s) ==
  LET S == {s[p] : p \in 1..Len(s)}
  IN SelectSeq([k \in KeyIds |-> k], LAMBDA k : k \in S)

\* ------------------------------------------------------------- formatting
\* A formatTime that forgets the leading zero.
formatTime_NoPad(t) == <<timeColor>> \o Kitchen(t)

\* formats the 'time' portion of the json log line.
formatTime(t) ==
  LET s == Kitchen(t)
  IN IF Len(s) = 6 THEN <<timeColor, "0">> \o s ELSE <<timeColor>> \o s

\* formats the 'level' portion of the json log line (src/glogv.go).
formatLevel(s) ==
  CASE s = "info" -> <<" ", colorGreen, "I", "N", "F">>
    [] s = "warn" -> <<" ", colorYellow, "W", "R", "N">>
    [] s = "debug" -> <<" ", colorCyan, "D", "B", "G">>
    [] s = "error" -> <<" ", colorRed, "E", "R", "R">>
    [] s = "panic" -> <<" ", colorPurple, "P", "N", "C">>
    [] OTHER -> <<" ", "?", "?", "?">>

\* formats the 'level' portion of the json log line (part_000).
formatLevel_multi(s) ==
  CASE s = "info" -> <<" ", color(s), "I", "N", "F">>
    [] s = "warn" -> <<" ", color(s), "W", "R", "N">>
    [] s = "debug" -> <<" ", color(s), "D", "B", "G">>
    [] s = "error" -> <<" ", color(s), "E", "R", "R">>
    [] s = "panic" -> <<" ", color(s), "P", "N", "C">>
    [] s = "fatal" -> <<" ", color(s), "P", "N", "C">>
    [] s = "trace" -> <<" ", color(s), "P", "N", "C">>
    [] OTHER -> <<color("info"), " ", "?", "?", "?">>

\* formats the 'message' portion of the json log line (src/glogv.go).
formatMessage(s, l) ==
  IF s = "" THEN <<>>
  ELSE IF l = "info" THEN <<" ", colorReset, s>>
  ELSE <<" ", s>>

\* formats the 'message' portion of the json log line (part_000).
formatMessage_multi(s, l) ==
  IF s = "" THEN <<>>
  ELSE IF l = "info" THEN <<" ", infoColor, s>>
  ELSE <<" ", s>>

\* formats the 'error' portion of the json log line.
formatError(s) == IF s = "" THEN <<>> ELSE <<" (error: ", s, ")">>

\* The key loop of formatMap over the keys in range order o:
\*     keys = keys[:0]
\*     for k := range m { keys = append(keys, k); i++; if i > maxKeys { break } }
\* The test follows the append, so the loop stops after the key that makes i
\* exceed maxKeys.
rangeAppend(o) ==
  LET taken == IF Len(o) > maxKeys THEN maxKeys + 1 ELSE Len(o)
  IN SubSeq(o, 1, taken)

\* One " key=value" of the attribute segment: " " + tag + k + "=" + clr + v.
Pair(k, tag, clr, v) == <<" ", tag, KeyNames[k], "=", clr, v.s>>

\*     for _, k := range keys { s += " " + tag + k + "=" + clr + m[k].(string) }
\* over keys[lo..hi]
RECURSIVE joinPairs(_, _, _, _, _, _)
joinPairs(m, ks, lo, hi, tag, clr) ==
  IF lo > hi THEN <<>>
  ELSE IF lo = hi THEN Pair(ks[lo], tag, clr, m[ks[lo]])
  ELSE LET mid == (lo + hi) \div 2
       IN joinPairs(m, ks, lo, mid, tag, clr) \o joinPairs(m, ks, mid + 1, hi, tag, clr)

\* formats the remaining key/value pairs of the json log line (src/glogv.go).
\* o is the order in which `range m` yields the keys and ks the shared slice
\* `keys` on entry.  The result holds the segment, the slice on return and
\* whether a type assertion panicked.
formatMap(m, o, ks) ==
  LET l == Cardinality(DOMAIN m)
  IN IF l = 0 THEN [panic |-> FALSE, s |-> <<>>, keys |-> ks]
     ELSE IF l = 1
       THEN LET k == o[1]
            IN IF AssertPanics(m[k]) THEN [panic |-> TRUE, s |-> <<>>, keys |-> ks]
               ELSE [panic |-> FALSE, s |-> Pair(k, colorGray, colorReset, m[k]), keys |-> ks]
     ELSE LET sorted == SortStrings(rangeAppend(o))
          IN IF \E p \in 1..Len(sorted) : AssertPanics(m[sorted[p]])
               THEN [panic |-> TRUE, s |-> <<>>, keys |-> sorted]
               ELSE [panic |-> FALSE,
                     s |-> joinPairs(m, sorted, 1, Len(sorted), colorGray, colorReset),
                     keys |-> sorted]

\* formats the remaining key/value pairs of the json log line (part_000):
\* the colour of the values follows the level l.
formatMap_multi(m, l, o, ks) ==
  LET length == Cardinality(DOMAIN m)
      clr == IF l = "info" THEN infoColor ELSE color(l)
  IN IF length = 0 THEN [panic |-> FALSE, s |-> <<>>, keys |-> ks]
     ELSE IF length = 1
       THEN LET k == o[1]
            IN IF AssertPanics(m[k]) THEN [panic |-> TRUE, s |-> <<>>, keys |-> ks]
               ELSE [panic |-> FALSE, s |-> Pair(k, tagColor, clr, m[k]), keys |-> ks]
     ELSE LET sorted == SortStrings(rangeAppend(o))
          IN IF \E p \in 1..Len(sorted) : AssertPanics(m[sorted[p]])
               THEN [panic |-> TRUE, s |-> <<>>, keys |-> sorted]
               ELSE [panic |-> FALSE,
                     s |-> joinPairs(m, sorted, 1, Len(sorted), tagColor, clr),
                     keys |-> sorted]

\* -------------------------------------------------------------- input lines
\* What a source can deliver as one line:
\*   text     bytes that do not begin with "{"           (hello world)
\*   empty    no bytes at all
\*   badjson  begins with "{" and is no JSON object      ({oops)
\*   object   one JSON object, decoded into rec
\*   toolong  more bytes than the scanner's buffer holds
NoAttrs == [k \in {} |-> Absent]
NoRec == [time |-> TAbsent, level |-> Absent, message |-> Absent, error |-> Absent,
          attrs |-> NoAttrs]
Raw(kind) == [kind |-> kind, rec |-> NoRec]
Obj(r) == [kind |-> "object", rec |-> r]

\* string(b[:1]).  The token of an empty line is a zero-length slice of the
\* scanner's buffer, whose capacity reaches past the line's end, so the byte
\* read is the line terminator.
FirstByte(b) ==
  CASE b.kind \in {"object", "badjson"} -> "{"
    [] b.kind = "empty" -> "\n"
    [] OTHER -> "h"

\* json.Unmarshal(b, &keyVals.Map)
Unmarshal(b) ==
  IF b.kind = "object" THEN [Map |-> b.rec, err |-> FALSE]
  ELSE [Map |-> NoRec, err |-> TRUE]

\* What one call of reformat leaves behind: the lines it printed, the shared
\* slice `keys`, and whether it panicked.
Done(printed, ks) == [panic |-> FALSE, printed |-> printed, keys |-> ks]
Panicked(ks) == [panic |-> TRUE, printed |-> <<>>, keys |-> ks]

\* The body of reformat once the line is decoded (src/glogv.go): the type
\* assertions on the recognised fields, the five segments and the Printf.  o is
\* the range order of the remaining map, ks is `keys`.  A printed line is the
\* tuple of the five %s arguments of the Printf.
reformatFields(Map, o, ks) ==
  IF Has(Map.time) /\ AssertPanics(Map.time) THEN Panicked(ks)
  ELSE IF Has(Map.level) /\ AssertPanics(Map.level) THEN Panicked(ks)
  ELSE IF Has(Map.message) /\ AssertPanics(Map.message) THEN Panicked(ks)
  ELSE IF Has(Map.error) /\ AssertPanics(Map.error) THEN Panicked(ks)
  ELSE
    LET tm == IF Has(Map.time) THEN ParseRFC3339(Map.time).tm ELSE ZeroTime
        level == IF Has(Map.level) THEN Map.level.s ELSE ""
        message == IF Has(Map.message) THEN Map.message.s ELSE ""
        errorx == IF Has(Map.error) THEN Map.error.s ELSE ""
        tmStr == formatTime(tm)
        lvlStr == formatLevel(level)
        msgStr == formatMessage(message, level)
        errStr == formatError(errorx)
        \* delete(keyVals.Map, ...) leaves Map.attrs
        val == formatMap(Map.attrs, o, ks)
    IN IF val.panic THEN Panicked(val.keys)
       ELSE Done(<< <<tmStr, lvlStr, msgStr, errStr, val.s>> >>, val.keys)

\* The same of part_000: an unknown level falls back to "info" for the colour
\* of the attribute values.
reformatFields_multi(Map, o, ks) ==
  IF Has(Map.time) /\ AssertPanics(Map.time) THEN Panicked(ks)
  ELSE IF Has(Map.level) /\ AssertPanics(Map.level) THEN Panicked(ks)
  ELSE IF Has(Map.message) /\ AssertPanics(Map.message) THEN Panicked(ks)
  ELSE IF Has(Map.error) /\ AssertPanics(Map.error) THEN Panicked(ks)
  ELSE
    LET tm == IF Has(Map.time) THEN ParseRFC3339(Map.time).tm ELSE ZeroTime
        level == IF Has(Map.level) THEN Map.level.s ELSE ""
        message == IF Has(Map.message) THEN Map.message.s ELSE ""
        errorx == IF Has(Map.error) THEN Map.error.s ELSE ""
        tmStr == formatTime(tm)
        lvlStr == formatLevel_multi(level)
        msgStr == formatMessage_multi(message, level)
        errStr == formatError(errorx)
        level2 == IF colorHas(level) THEN level ELSE "info"
        val == formatMap_multi(Map.attrs, level2, o, ks)
    IN IF val.panic THEN Panicked(val.keys)
       ELSE Done(<< <<tmStr, lvlStr, msgStr, errStr, val.s>> >>, val.keys)

\* A reformat that gives up on a line it cannot decode instead of skipping it.
reformat_AbortOnNonJSON(b, o, ks) ==
  IF FirstByte(b) # "{" THEN Panicked(ks)
  ELSE IF Unmarshal(b).err THEN Panicked(ks)
  ELSE reformatFields(Unmarshal(b).Map, o, ks)

\* reformats the json log line into a prettier, more readable version
\* (src/glogv.go): a line that is not JSON is left out without a word.
reformat(b, o, ks) ==
  IF FirstByte(b) # "{" THEN Done(<<>>, ks)
  ELSE IF Unmarshal(b).err THEN Done(<<>>, ks)
  ELSE reformatFields(Unmarshal(b).Map, o, ks)

\* reformat of part_000.
reformat_multi(b, o, ks) ==
  IF FirstByte(b) # "{" THEN Done(<<>>, ks)
  ELSE IF Unmarshal(b).err THEN Done(<<>>, ks)
  ELSE reformatFields_multi(Unmarshal(b).Map, o, ks)

\* ------------------------------------------------------------ range orders
RECURSIVE Perms(_)
Perms(S) ==
  IF S = {} THEN {<<>>}
  ELSE UNION {{<<x>> \o p : p \in Perms(S \ {x})} : x \in S}

Ascending(S) == SelectSeq([k \in KeyIds |-> k], LAMBDA k : k \in S)

Reverse(s) == [i \in 1..Len(s) |-> s[Len(s) + 1 - i]]

\* The orders `for k := range m` may yield the keys of m in.  Go leaves the
\* order unspecified and varies it from one loop to the next.
RangeOrders(m) ==
  IF Cardinality(DOMAIN m) <= MaxPerm THEN Perms(DOMAIN m)
  ELSE {Ascending(DOMAIN m), Reverse(Ascending(DOMAIN m))}

\* ------------------------------------------------------- the lines of a run
AttrVal(k) == IF k <= 3 THEN Str(<<"1", "2", "3">>[k]) ELSE Str("v")
Strings(S) == [k \in S |-> AttrVal(k)]
Rec(tm, lvl, msg, err, attrs) ==
  [time |-> tm, level |-> lvl, message |-> msg, error |-> err, attrs |-> attrs]

L_text == Raw("text")
L_empty == Raw("empty")
L_badjson == Raw("badjson")
L_toolong == Raw("toolong")
\* {"level":"info","message":"hello"}
L_hello == Obj(Rec(TAbsent, Str("info"), Str("hello"), Absent, NoAttrs))
\* {"time":"...T15:04:05Z","level":"error","message":"failed","error":"boom","k002":"2","k001":"1"}
L_full == Obj(Rec(TStamp(15, 4), Str("error"), Str("failed"), Str("boom"), Strings({1, 2})))
\* {"level":"warn","message":"one","k002":"2"}
L_one == Obj(Rec(TAbsent, Str("warn"), Str("one"), Absent, Strings({2})))
\* {"level":"debug","k003":"3","k001":"1","k002":"2"}
L_three == Obj(Rec(TAbsent, Str("debug"), Absent, Absent, Strings({1, 2, 3})))
\* {"level":5,"message":"hello"}
L_numlevel == Obj(Rec(TAbsent, NonStr("number"), Str("hello"), Absent, NoAttrs))
\* {"level":"info","k001":1}
L_numattr == Obj(Rec(TAbsent, Str("info"), Absent, Absent, [k \in {1} |-> NonStr("number")]))
\* {"level":"info","k001":"1","k002":true}
L_mixed ==
  Obj(Rec(TAbsent, Str("info"), Absent, Absent,
          [k \in {1, 2} |-> IF k = 1 THEN AttrVal(1) ELSE NonStr("bool")]))
\* records with maxKeys, maxKeys + 1 and maxKeys + 2 string attributes
L_cap == Obj(Rec(TAbsent, Str("info"), Absent, Absent, Strings(1..maxKeys)))
L_cap1 == Obj(Rec(TAbsent, Str("info"), Absent, Absent, Strings(1..(maxKeys + 1))))
L_cap2 == Obj(Rec(TAbsent, Str("info"), Absent, Absent, Strings(1..(maxKeys + 2))))

\* The lines the scanner hands to reformat in a run.
Lines ==
  {L_text, L_empty, L_badjson, L_hello, L_full, L_one, L_three, L_numlevel,
   L_numattr, L_mixed, L_cap, L_cap1, L_cap2}

\* The records one call of reformat is tried on, field by field.
Times ==
  {TAbsent, TText(""), TText("yesterday"), TNonStr("number"), TNonStr("null")}
  \cup {TStamp(hh, mm) : hh \in {0, 3, 9, 10, 11, 12, 13, 21, 23}, mm \in {0, 4, 59}}
Levels ==
  {Absent, NonStr("number"), NonStr("null"), NonStr("object")}
  \cup {Str(x) : x \in {"info", "warn", "debug", "error", "panic", "fatal", "trace",
                        "INFO", "Warn", "bogus", ""}}
Messages == {Absent, Str(""), Str("hello"), NonStr("bool")}
Errors == {Absent, Str(""), Str("boom"), NonStr("array")}
Attrs ==
  {NoAttrs, Strings({2}), Strings({1, 2}), [k \in {1} |-> NonStr("number")]}
Records ==
  {Rec(tm, lvl, msg, err, at) :
     tm \in Times, lvl \in Levels, msg \in Messages, err \in Errors, at \in Attrs}

\* -------------------------------------------------------------------- state
VARIABLES
  variant,   \* the generation of the program that runs
  tailFlag,  \* -tail
  nfiles,    \* len(flag.Args())
  pc,        \* where main is
  gpc,       \* where tail's reader goroutine is: none, scan, done
  proc,      \* the tail subprocess: none, running, exited
  status,    \* its exit status
  scanErr,   \* scanner.Err() of the scanner in use
  fi,        \* the file cat is at (0: stdin, or the pipe of tail)
  read,      \* the lines the sources have delivered so far
  out,       \* the lines reformat has printed on standard output
  keys,      \* var keys []string
  exitCode,  \* the exit code of the process, -1 while it runs
  diag       \* the diagnostic printed before os.Exit

vars ==
  <<variant, tailFlag, nfiles, pc, gpc, proc, status, scanErr, fi, read, out, keys,
    exitCode, diag>>

NoErr == ""
ErrTooLong == "bufio.Scanner: token too long"

Init ==
  /\ variant \in Variants
  /\ tailFlag \in BOOLEAN
  /\ nfiles \in 0..MaxFiles
  /\ pc = "main"
  /\ gpc = "none"
  /\ proc = "none"
  /\ status = 0
  /\ scanErr = NoErr
  /\ fi = 0
  /\ read = <<>>
  /\ out = <<>>
  /\ keys = <<>>
  /\ exitCode = -1
  /\ diag = ""

Running == pc \notin {"exited", "crashed"}

\* main, on the error of a mode: fmt.Printf("error: %v\n", err); os.Exit(errorExitCode)
Fail(err) == pc' = "exited" /\ exitCode' = errorExitCode /\ diag' = err
\* main returns
Succeed == pc' = "exited" /\ exitCode' = 0 /\ diag' = ""

\* main: flag.Arg(0) (src/glogv.go) or flag.Args() (part_000) selects the mode.
main ==
  /\ pc = "main"
  /\ IF tailFlag /\ nfiles = 0
       THEN /\ pc' = "exited"
            /\ exitCode' = errorExitCode
            /\ diag' = "-tail option used without a file being provided"
            /\ UNCHANGED fi
       ELSE /\ UNCHANGED <<exitCode, diag>>
            /\ IF tailFlag THEN pc' = "tail" /\ UNCHANGED fi
               ELSE IF nfiles > 0 THEN pc' = "cat" /\ fi' = 1
               ELSE pc' = "scan" /\ UNCHANGED fi
  /\ UNCHANGED <<variant, tailFlag, nfiles, gpc, proc, status, scanErr, read, out, keys>>

\* One turn of `for scanner.Scan() { reformat(scanner.Bytes()) }` on line b,
\* the remaining map ranged over in order o.  A panic ends the process.
loop(b, o) ==
  LET r == IF variant = V_glogv THEN reformat(b, o, keys) ELSE reformat_multi(b, o, keys)
  IN /\ read' = Append(read, [file |-> fi, line |-> b])
     /\ out' = out \o r.printed
     /\ keys' = r.keys
     /\ IF r.panic THEN pc' = "crashed" /\ exitCode' = 2
        ELSE UNCHANGED <<pc, exitCode>>

\* scan continues to scan stdin until EOF.
scan ==
  /\ pc = "scan"
  /\ \/ /\ Len(read) < MaxLines
        /\ \E b \in Lines : \E o \in RangeOrders(b.rec.attrs) : loop(b, o)
        /\ UNCHANGED <<scanErr, diag>>
     \/ /\ Len(read) < MaxLines
        /\ read' = Append(read, [file |-> fi, line |-> L_toolong])
        /\ scanErr' = ErrTooLong
        /\ Fail(ErrTooLong)
        /\ UNCHANGED <<out, keys>>
     \/ /\ Succeed
        /\ UNCHANGED <<scanErr, read, out, keys>>
  /\ UNCHANGED <<variant, tailFlag, nfiles, gpc, proc, status, fi>>

\* cat will read the given file and reformat it (src/glogv.go).
cat ==
  /\ variant = V_glogv
  /\ \/ /\ pc = "cat"
        /\ \E opened \in BOOLEAN :
             IF opened THEN pc' = "cat_scan" /\ UNCHANGED <<exitCode, diag>>
             ELSE Fail("open: no such file or directory")
        /\ UNCHANGED <<scanErr, fi, read, out, keys>>
     \/ /\ pc = "cat_scan"
        /\ Len(read) < MaxLines
        /\ \E b \in Lines : \E o \in RangeOrders(b.rec.attrs) : loop(b, o)
        /\ UNCHANGED <<scanErr, fi, diag>>
     \/ /\ pc = "cat_scan"
        /\ Len(read) < MaxLines
        /\ read' = Append(read, [file |-> fi, line |-> L_toolong])
        /\ scanErr' = ErrTooLong
        /\ Fail(ErrTooLong)
        /\ UNCHANGED <<fi, out, keys>>
     \/ /\ pc = "cat_scan"
        /\ Succeed
        /\ UNCHANGED <<scanErr, fi, read, out, keys>>
  /\ UNCHANGED <<variant, tailFlag, nfiles, gpc, proc, status>>

\* What os.Open and, for a name ending in .gz, gzip.NewReader make of a file.
Opened == {"plain", "gzip", "no such file", "gzip: invalid header"}

\* cat will read the given file(s) and reformat it (part_000): fn on the file
\* at fi, then the next file; the first error ends the run.
cat_multi ==
  /\ variant = V_multi
  /\ \/ /\ pc = "cat"
        /\ \E f \in Opened :
             IF f \in {"plain", "gzip"} THEN pc' = "cat_scan" /\ UNCHANGED <<exitCode, diag>>
             ELSE Fail(f)
        /\ UNCHANGED <<scanErr, fi, read, out, keys>>
     \/ /\ pc = "cat_scan"
        /\ Len(read) < MaxLines
        /\ \E b \in Lines : \E o \in RangeOrders(b.rec.attrs) : loop(b, o)
        /\ UNCHANGED <<scanErr, fi, diag>>
     \/ /\ pc = "cat_scan"
        /\ Len(read) < MaxLines
        /\ read' = Append(read, [file |-> fi, line |-> L_toolong])
        /\ scanErr' = ErrTooLong
        /\ Fail(ErrTooLong)
        /\ UNCHANGED <<fi, out, keys>>
     \/ /\ pc = "cat_scan"
        /\ IF fi < nfiles
             THEN pc' = "cat" /\ fi' = fi + 1 /\ UNCHANGED <<exitCode, diag>>
             ELSE Succeed /\ UNCHANGED fi
        /\ UNCHANGED <<scanErr, read, out, keys>>
  /\ UNCHANGED <<variant, tailFlag, nfiles, gpc, proc, status>>

\* The goroutine of tail:
\*     for scanner.Scan() { reformat(scanner.Bytes()) }; wg.Done()
\* It reads what the subprocess writes to the pipe; the pipe ends when the
\* subprocess has exited.
reader ==
  /\ Running
  /\ gpc = "scan"
  /\ \/ /\ proc = "running"
        /\ Len(read) < MaxLines
        /\ \E b \in Lines : \E o \in RangeOrders(b.rec.attrs) : loop(b, o)
        /\ UNCHANGED <<gpc, scanErr, diag>>
     \/ /\ proc = "running"
        /\ Len(read) < MaxLines
        /\ read' = Append(read, [file |-> fi, line |-> L_toolong])
        /\ scanErr' = ErrTooLong
        /\ gpc' = "done"
        /\ UNCHANGED <<pc, out, keys, exitCode, diag>>
     \/ /\ proc = "exited"
        /\ gpc' = "done"
        /\ UNCHANGED <<pc, scanErr, read, out, keys, exitCode, diag>>
  /\ UNCHANGED <<variant, tailFlag, nfiles, proc, status, fi>>

\* The tail subprocess ends: it is killed, or the file it follows is gone.
\* `tail --follow=name` does not end by itself.
tailProcess ==
  /\ Running
  /\ proc = "running"
  /\ proc' = "exited"
  /\ status' \in {0, 1}
  /\ UNCHANGED <<variant, tailFlag, nfiles, pc, gpc, scanErr, fi, read, out, keys,
                 exitCode, diag>>

\* tail will run the linux tail command and log the output (src/glogv.go):
\* os.Stat and StdoutPipe, the goroutine, cmd.Start, wg.Wait, scanner.Err,
\* cmd.Wait.
tail ==
  /\ variant = V_glogv
  /\ \/ /\ pc = "tail"
        /\ \E err \in {NoErr, "stat: no such file or directory", "exec: StdoutPipe"} :
             IF err # NoErr THEN Fail(err) /\ UNCHANGED gpc
             ELSE pc' = "tail_start" /\ gpc' = "scan" /\ UNCHANGED <<exitCode, diag>>
        /\ UNCHANGED <<proc>>
     \/ /\ pc = "tail_start"
        /\ \E err \in {NoErr, "exec: tail: not found"} :
             IF err # NoErr THEN Fail(err) /\ UNCHANGED proc
             ELSE pc' = "tail_wait" /\ proc' = "running" /\ UNCHANGED <<exitCode, diag>>
        /\ UNCHANGED <<gpc>>
     \/ /\ pc = "tail_wait"
        /\ gpc = "done"
        /\ pc' = "tail_err"
        /\ UNCHANGED <<gpc, proc, exitCode, diag>>
     \/ /\ pc = "tail_err"
        /\ IF scanErr # NoErr THEN Fail(scanErr)
           ELSE pc' = "tail_cmdwait" /\ UNCHANGED <<exitCode, diag>>
        /\ UNCHANGED <<gpc, proc>>
     \/ /\ pc = "tail_cmdwait"
        /\ proc = "exited"
        /\ IF status = 0 THEN Succeed ELSE Fail("exit status 1")
        /\ UNCHANGED <<gpc, proc>>
  /\ UNCHANGED <<variant, tailFlag, nfiles, status, scanErr, fi, read, out, keys>>

\* tail of part_000: scanner.Err() is read right after cmd.Start, before
\* wg.Wait, while the goroutine may be writing it.  The unsynchronised read
\* sees the error the goroutine has stored, or still nil.
tail_multi ==
  /\ variant = V_multi
  /\ \/ /\ pc = "tail"
        /\ \E err \in {NoErr, "stat: no such file or directory", "exec: StdoutPipe"} :
             IF err # NoErr THEN Fail(err) /\ UNCHANGED gpc
             ELSE pc' = "tail_start" /\ gpc' = "scan" /\ UNCHANGED <<exitCode, diag>>
        /\ UNCHANGED <<proc>>
     \/ /\ pc = "tail_start"
        /\ \E err \in {NoErr, "exec: tail: not found"} :
             IF err # NoErr THEN Fail(err) /\ UNCHANGED proc
             ELSE pc' = "tail_err" /\ proc' = "running" /\ UNCHANGED <<exitCode, diag>>
        /\ UNCHANGED <<gpc>>
     \/ /\ pc = "tail_err"
        /\ \E err \in {NoErr, scanErr} :
             IF err # NoErr THEN Fail(err)
             ELSE pc' = "tail_wait" /\ UNCHANGED <<exitCode, diag>>
        /\ UNCHANGED <<gpc, proc>>
     \/ /\ pc = "tail_wait"
        /\ gpc = "done"
        /\ pc' = "tail_cmdwait"
        /\ UNCHANGED <<gpc, proc, exitCode, diag>>
     \/ /\ pc = "tail_cmdwait"
        /\ proc = "exited"
        /\ IF status = 0 THEN Succeed ELSE Fail("exit status 1")
        /\ UNCHANGED <<gpc, proc>>
  /\ UNCHANGED <<variant, tailFlag, nfiles, status, scanErr, fi, read, out, keys>>

Next == main \/ scan \/ cat \/ cat_multi \/ tail \/ tail_multi \/ reader \/ tailProcess

Spec == Init /\ [][Next]_vars

\* One call of reformat on each record of Records, read from standard input.
scanRecord ==
  /\ pc = "scan"
  /\ read = <<>>
  /\ \E r \in Records : \E o \in RangeOrders(r.attrs) : loop(Obj(r), o)
  /\ UNCHANGED <<variant, tailFlag, nfiles, gpc, proc, status, scanErr, fi, diag>>

InitFormat == Init /\ ~tailFlag /\ nfiles = 0

NextFormat == main \/ scanRecord

SpecFormat == InitFormat /\ [][NextFormat]_vars

\* ------------------------------------------------------------------- claims
\* The records among the lines delivered so far, in order.  reformat prints
\* at most one line per record and a panic ends the run, so out[i] is the
\* line printed for ObjectsRead[i].
ObjectsRead == SelectSeq(read, LAMBDA e : e.line.kind = "object")
RecordOf(i) == ObjectsRead[i].line.rec
LastLine == read[Len(read)].line

NotJSON(b) == b.kind \in {"text", "empty", "badjson"}
FieldOK(v) == v.t \in {"absent", "string"}
FieldsOK(r) == FieldOK(r.time) /\ FieldOK(r.level) /\ FieldOK(r.message) /\ FieldOK(r.error)
AttrsOK(r) == \A k \in DOMAIN r.attrs : r.attrs[k].t = "string"
TimeUnusable(r) == r.time.t = "absent" \/ (r.time.t = "string" /\ ~r.time.rfc3339)

\* The message and the error text of record r are on the printed line.
Shows(line, r) ==
  /\ Len(line) = 5
  /\ (r.message.t = "string" /\ r.message.s # "" => line[3] # <<>> /\ line[3][Len(line[3])] = r.message.s)
  /\ (r.error.t = "string" /\ r.error.s # "" => line[4] = <<" (error: ", r.error.s, ")">>)

\* The attribute segment as its (key, value) pairs, colours left out.
PairCount(seg) == Len(seg) \div 6
PairsOf(seg) == [j \in 1..PairCount(seg) |-> <<seg[6 * j - 3], seg[6 * j]>>]
WellFormed(seg) ==
  /\ Len(seg) = 6 * PairCount(seg)
  /\ \A j \in 1..PairCount(seg) : seg[6 * j - 5] = " " /\ seg[6 * j - 2] = "="

C2_FieldsTypeTolerant ==
  (read # <<>> /\ LastLine.kind = "object" /\ AttrsOK(LastLine.rec)
     /\ (~FieldsOK(LastLine.rec) \/ TimeUnusable(LastLine.rec)))
    => /\ pc # "crashed"
       /\ Len(out) = Len(ObjectsRead)

\* C3: a record with a non-string extra attribute, alone or among several, is
\* still printed as one line, with that attribute as key=value, and the run
\* goes on.
C3_AttrsTypeTolerant ==
  (read # <<>> /\ LastLine.kind = "object" /\ FieldsOK(LastLine.rec)
     /\ ~AttrsOK(LastLine.rec) /\ Cardinality(DOMAIN LastLine.rec.attrs) <= maxKeys)
    => /\ pc # "crashed"
       /\ Len(out) = Len(ObjectsRead)
       /\ PairCount(out[Len(out)][5]) = Cardinality(DOMAIN LastLine.rec.attrs)

\* C4: in stdin mode and in cat mode the output is one printed line per
\* record read, in the order of the records, the files of cat in argument
\* order.
C4_OneLinePerRecordInOrder ==
  ~tailFlag =>
    /\ Len(out) = Len(ObjectsRead)
    /\ \A i \in 1..Len(out) : Shows(out[i], RecordOf(i))
    /\ \A i, j \in 1..Len(read) : i < j => read[i].file <= read[j].file

\* C5: a line longer than the scanner's buffer ends the run with the error
\* exit code and the scanner's error as the diagnostic; tail never waits for
\* the subprocess while the scanner's error is unobserved.
C5_ScannerErrorSurfaced ==
  scanErr = ErrTooLong =>
    /\ pc # "tail_cmdwait"
    /\ pc = "exited" => exitCode = errorExitCode /\ diag = ErrTooLong

\* The segment the sorted path of formatMap makes of map m for level lvl.
SortedPath(m, lvl) ==
  LET ks == SortStrings(rangeAppend(Ascending(DOMAIN m)))
  IN IF variant = V_glogv THEN joinPairs(m, ks, 1, Len(ks), colorGray, colorReset)
     ELSE joinPairs(m, ks, 1, Len(ks), tagColor,
                    IF lvl = "info" \/ ~colorHas(lvl) THEN infoColor ELSE color(lvl))

\* C6: a record with between 1 and maxKeys string attributes is printed with
\* exactly its attributes as " key=value", in ascending key order, whatever
\* order the map was ranged over in; a single attribute, which takes the fast
\* path, is printed as the sorted path would print it.
C6_AttrsAscending ==
  \A i \in 1..Len(out) :
    LET m == RecordOf(i).attrs
        n == Cardinality(DOMAIN m)
        asc == SelectSeq([k \in KeyIds |-> k], LAMBDA k : k \in DOMAIN m)
        lvl == IF RecordOf(i).level.t = "string" THEN RecordOf(i).level.s ELSE ""
    IN (n >= 1 /\ n <= maxKeys /\ AttrsOK(RecordOf(i))) =>
         /\ WellFormed(out[i][5])
         /\ PairsOf(out[i][5]) = [j \in 1..n |-> <<KeyNames[asc[j]], m[asc[j]].s>>]
         /\ n = 1 => out[i][5] = SortedPath(m, lvl)

\* records with one, with several and with maxKeys attributes were printed
C6_Witness ==
  /\ Len(out) = 2
  /\ Cardinality(DOMAIN RecordOf(1).attrs) = maxKeys
  /\ PairCount(out[1][5]) = maxKeys
  /\ Cardinality(DOMAIN RecordOf(2).attrs) = 1
  /\ PairCount(out[2][5]) = 1

\* C7: the keys printed for a record are keys of that record, and the line
\* printed for a record is the same in every run, also for a record with more
\* attributes than maxKeys.
C7_OutputDetermined ==
  /\ \A i \in 1..Len(out) :
       \A j \in 1..PairCount(out[i][5]) :
         \E k \in DOMAIN RecordOf(i).attrs : PairsOf(out[i][5])[j][1] = KeyNames[k]
  /\ \A i \in 1..Len(read) :
       \A o1, o2 \in RangeOrders(read[i].line.rec.attrs) :
         IF variant = V_glogv
           THEN reformat(read[i].line, o1, <<>>).printed = reformat(read[i].line, o2, <<>>).printed
           ELSE reformat_multi(read[i].line, o1, <<>>).printed
                  = reformat_multi(read[i].line, o2, <<>>).printed

UpperCase ==
  {"A", "B", "C", "D", "E", "F", "G", "H", "I", "J", "K", "L", "M", "N", "O", "P", "Q",
   "R", "S", "T", "U", "V", "W", "X", "Y", "Z"}
KnownLevels == {"info", "warn", "debug", "error", "panic", "fatal", "trace"}
TagOf(seg) == SubSeq(seg, Len(seg) - 2, Len(seg))

\* C8: the level tag of a printed line is three upper-case letters when the
\* level is one of the seven known levels and ??? for every other level, the
\* absent level and other spellings included.
C8_LevelTag ==
  \A i \in 1..Len(out) :
    LET lvl == IF RecordOf(i).level.t = "string" THEN RecordOf(i).level.s ELSE ""
        tag == TagOf(out[i][2])
    IN IF lvl \in KnownLevels THEN \A p \in 1..3 : tag[p] \in UpperCase
       ELSE tag = <<"?", "?", "?">>

\* C9: no printed line has more than maxKeys key=value pairs, a record with
\* more attributes loses exactly the excess, and the slice `keys` never holds
\* more than maxKeys keys.
C9_AtMostMaxKeys ==
  /\ Len(keys) <= maxKeys
  /\ \A i \in 1..Len(out) :
       LET n == Cardinality(DOMAIN RecordOf(i).attrs)
       IN PairCount(out[i][5]) = IF n > maxKeys THEN maxKeys ELSE n

\* The clock text of a time segment: what follows the colour.
ClockOf(seg) == Tail(seg)
TwoDigits(n) == <<Digit(n \div 10), Digit(n % 10)>>
Clock12(h, m) ==
  TwoDigits(IF h % 12 = 0 THEN 12 ELSE h % 12) \o <<":">> \o TwoDigits(m)
    \o <<IF h >= 12 THEN "P" ELSE "A", "M">>

====
